---- MODULE Spec2Model ----
(***************************************************************************)
(* Encrypted-memo transfers of eliza-plugin-dot: SubstrateChain composes   *)
(* a transfer (optionally batched with a System.remark carrying the        *)
(* encrypted memo), the chain executes it, the Subscan indexer serves the  *)
(* transfer and parameter records, and SubscanApi reconciles and decrypts. *)
(*                                                                         *)
(* A JavaScript string is a sequence of string tokens (the empty string is *)
(* <<>>); a value that may be null/undefined is a record [some, v].        *)
(***************************************************************************)
EXTENDS Integers, Sequences, FiniteSets, TLC

VARIABLES
    pending,    \* extrinsics signed and sent, not yet executed by the chain
    blocks,     \* executed extrinsics, in chain order
    bal,        \* free balance per <<public key, asset>>
    last,       \* the compose call being returned: arguments, steps, outcome
    sent,       \* the calls that submitted an extrinsic, in submission order
    rows,       \* the latest history read: reader and the rows returned
    recIn,      \* extrinsic-parameter records served by the indexer
    recOut,     \* result of getMemoByTransferExtrinsics on recIn
    decIn,      \* rows handed to decryptTransfersMemo
    decWho,     \* the encryption service handed to decryptTransfersMemo
    decOut,     \* result of decryptTransfersMemo on decIn
    job,        \* a decryptTransfersMemo call in flight: its callbacks
    chainObj,   \* one SubstrateChain object: its fields and its last update
    flight,     \* a compose call in flight on chainObj, step by step
    service,    \* the AssetHubService: its chain, its indexer client, last call
    handler     \* the last run of the TRANSFER_ASSETS handler

vars == <<pending, blocks, bal, last, sent, rows, recIn, recOut, decIn, decWho,
          decOut, job, chainObj, flight, service, handler>>

\* ------------------------------------------------------------ bounds
MaxTx == 1          \* extrinsics the chain executes in one behaviour
MaxRecs == 2        \* parameter records in one indexer response
MaxRows == 2        \* rows in one decryptTransfersMemo call
MaxIndexed == 2     \* extrinsics the indexer holds in a history read alone

\* ------------------------------------------------------------ JS values
None == [some |-> FALSE, v |-> <<>>]
Some(s) == [some |-> TRUE, v |-> s]

Last(s) == s[Len(s)]

\* ------------------------------------------------------------ accounts
Accounts ==
    { [sk |-> "sk_alice", pk |-> "pk_alice"],
      [sk |-> "sk_bob",   pk |-> "pk_bob"],
      [sk |-> "sk_eve",   pk |-> "pk_eve"] }

SecretKeys == { a.sk : a \in Accounts }

PubOf(sk) == (CHOOSE a \in Accounts : a.sk = sk).pk

\* The chain's address format, read from the chain's properties.
ss58Format == 0

\* SS58 strings that decode: the address, its network prefix and public key.
AddressTable ==
    { [addr |-> <<"1alice">>, prefix |-> 0,  pk |-> "pk_alice"],
      [addr |-> <<"1bob">>,   prefix |-> 0,  pk |-> "pk_bob"],
      [addr |-> <<"1eve">>,   prefix |-> 0,  pk |-> "pk_eve"],
      [addr |-> <<"5bob">>,   prefix |-> 42, pk |-> "pk_bob"] }

Decodes(address) == \E r \in AddressTable : r.addr = address

DecodeAddress(address) == CHOOSE r \in AddressTable : r.addr = address

AddressOf(pk) ==
    (CHOOSE r \in AddressTable : r.pk = pk /\ r.prefix = ss58Format).addr

\* ------------------------------------------------------------ KeyDeriver
validateAddress(address) ==
    Decodes(address) /\ DecodeAddress(address).prefix = ss58Format

\* keyring.addFromAddress decodes any well-formed SS58 string, whatever its
\* prefix, and throws on anything else.
getAddressPublicKey(address) ==
    IF Decodes(address)
    THEN [ok |-> TRUE, v |-> DecodeAddress(address).pk]
    ELSE [ok |-> FALSE, v |-> "Failed to getAddressPublicKey"]

getMyAddress(self) == AddressOf(PubOf(self.privateKey))

\* ------------------------------------------------------------ MemoCodec
\* Key agreement between the caller's private key and the other party's
\* public key: the ciphertext opens for either party of the agreement.
encryptMessage(crypt, memo, toPublicKey) ==
    <<"ct", PubOf(crypt.sk), toPublicKey>> \o memo

decryptMessage(crypt, e) ==
    IF Len(e) >= 3 /\ e[1] = "ct" /\ PubOf(crypt.sk) \in {e[2], e[3]}
    THEN [ok |-> TRUE, v |-> SubSeq(e, 4, Len(e))]
    ELSE [ok |-> FALSE, v |-> <<>>]

\* JSON.stringify of an envelope {e, t, to}.
JSONstringify(m) ==
    <<"{e:">> \o m.e \o <<",t:", m.t, ",to:">> \o m.to \o <<"}">>

IsEnvelopeJson(s) ==
    /\ Len(s) >= 6
    /\ s[1] = "{e:"
    /\ s[Len(s)] = "}"
    /\ s[Len(s) - 2] = ",to:"
    /\ s[Len(s) - 4] = ",t:"

convertJsonToEncryptedMemo(memo) ==
    IF memo.some /\ IsEnvelopeJson(memo.v)
    THEN [ok |-> TRUE,
          v |-> [e |-> SubSeq(memo.v, 2, Len(memo.v) - 5),
                 t |-> memo.v[Len(memo.v) - 3],
                 to |-> <<memo.v[Len(memo.v) - 1]>>]]
    ELSE [ok |-> FALSE, v |-> [e |-> <<>>, t |-> "", to |-> <<>>]]

\* ------------------------------------------------------------ calls
TransferCall(to, amount) ==
    [call_module |-> "Balances", call_name |-> "transfer_keep_alive",
     asset |-> "null", dest |-> to, value |-> amount, remark |-> <<>>]

AssetTransferCall(assetId, to, amount) ==
    [call_module |-> "Assets", call_name |-> "transfer_keep_alive",
     asset |-> assetId, dest |-> to, value |-> amount, remark |-> <<>>]

RemarkCall(payload) ==
    [call_module |-> "System", call_name |-> "remark",
     asset |-> "null", dest |-> <<>>, value |-> 0, remark |-> payload]

IsTransfer(c) ==
    c.call_module \in {"Balances", "Assets"} /\ c.call_name = "transfer_keep_alive"

IsRemark(c) == c.call_module = "System" /\ c.call_name = "remark"

\* A signed extrinsic: wrap is "none" for a single call.
Extrinsic(signer, wrap, calls) ==
    [signer |-> signer, wrap |-> wrap, calls |-> calls]

\* ------------------------------------------------------------ SubstrateChain
\* The object SubstrateChain.create returns: private key, key-pair type and
\* an optional encryption service built from a private key.
ChainObject(sk, withCrypt) ==
    [privateKey |-> sk, keyPairType |-> "sr25519",
     cryptMessage |-> [present |-> withCrypt, sk |-> sk, type |-> "sr25519"]]

Result(ok, trace, sub, err) ==
    [ok |-> ok, trace |-> trace, sub |-> sub, err |-> err]

NoEnvelope == [e |-> <<>>, t |-> "", to |-> <<>>]

\* Encrypts to the caller's own public key instead of the recipient's.
encryptMemo_OwnKey(self, memo, to) ==
    IF ~memo.some \/ ~getAddressPublicKey(to).ok \/ ~self.cryptMessage.present
    THEN [ok |-> ~memo.some, trace |-> <<>>, some |-> FALSE, v |-> NoEnvelope]
    ELSE [ok |-> TRUE,
          trace |-> <<"getAddressPublicKey", "encryptMessage">>,
          some |-> TRUE,
          v |-> [e |-> encryptMessage(self.cryptMessage, memo.v,
                                      PubOf(self.privateKey)),
                 t |-> self.keyPairType,
                 to |-> to]]

\* The envelope is tagged with a fixed scheme, not the wallet's key-pair type.
encryptMemo_FixedTag(self, memo, to) ==
    IF ~memo.some \/ ~getAddressPublicKey(to).ok \/ ~self.cryptMessage.present
    THEN [ok |-> ~memo.some,
          trace |-> IF memo.some THEN <<"getAddressPublicKey">> ELSE <<>>,
          some |-> FALSE, v |-> NoEnvelope]
    ELSE [ok |-> TRUE,
          trace |-> <<"getAddressPublicKey", "encryptMessage">>,
          some |-> TRUE,
          v |-> [e |-> encryptMessage(self.cryptMessage, memo.v,
                                      getAddressPublicKey(to).v),
                 t |-> "ed25519",
                 to |-> to]]

\* A failed encryption yields a null envelope instead of an error.
encryptMemo_NullOnFailure(self, memo, to) ==
    IF ~memo.some \/ ~getAddressPublicKey(to).ok \/ ~self.cryptMessage.present
    THEN [ok |-> TRUE,
          trace |-> IF memo.some THEN <<"getAddressPublicKey">> ELSE <<>>,
          some |-> FALSE, v |-> NoEnvelope]
    ELSE [ok |-> TRUE,
          trace |-> <<"getAddressPublicKey", "encryptMessage">>,
          some |-> TRUE,
          v |-> [e |-> encryptMessage(self.cryptMessage, memo.v,
                                      getAddressPublicKey(to).v),
                 t |-> self.keyPairType,
                 to |-> to]]

\* The envelope carries the memo as given, not a ciphertext.
encryptMemo_Plaintext(self, memo, to) ==
    IF ~memo.some \/ ~getAddressPublicKey(to).ok \/ ~self.cryptMessage.present
    THEN [ok |-> ~memo.some,
          trace |-> IF memo.some THEN <<"getAddressPublicKey">> ELSE <<>>,
          some |-> FALSE, v |-> NoEnvelope]
    ELSE [ok |-> TRUE,
          trace |-> <<"getAddressPublicKey", "encryptMessage">>,
          some |-> TRUE,
          v |-> [e |-> memo.v, t |-> self.keyPairType, to |-> to]]

encryptMemo(self, memo, to) ==
    IF ~memo.some
    THEN [ok |-> TRUE, trace |-> <<>>, some |-> FALSE, v |-> NoEnvelope]
    ELSE LET pk == getAddressPublicKey(to) IN
         IF ~pk.ok
         THEN [ok |-> FALSE, trace |-> <<"getAddressPublicKey">>,
               some |-> FALSE, v |-> NoEnvelope]
         ELSE IF ~self.cryptMessage.present
         THEN [ok |-> FALSE, trace |-> <<"getAddressPublicKey">>,
               some |-> FALSE, v |-> NoEnvelope]
         ELSE [ok |-> TRUE,
               trace |-> <<"getAddressPublicKey", "encryptMessage">>,
               some |-> TRUE,
               v |-> [e |-> encryptMessage(self.cryptMessage, memo.v, pk.v),
                      t |-> self.keyPairType,
                      to |-> to]]

RemarkPayload(m) == IF m.some THEN JSONstringify(m.v) ELSE <<"null">>

NativeMemoBatch_RemarkFirst(transfer, remark) ==
    [wrap |-> "batch_all", calls |-> <<remark, transfer>>]

NativeMemoBatch_ForceBatch(transfer, remark) ==
    [wrap |-> "force_batch", calls |-> <<transfer, remark>>]

\* utility.batchAll([transfer, remark]) of transferWithMemo.
NativeMemoBatch(transfer, remark) ==
    [wrap |-> "batch_all", calls |-> <<transfer, remark>>]

\* utility.batchAll([transfer, remark]) of assetsTransferWithMemo.
AssetMemoBatch(transfer, remark) ==
    [wrap |-> "batch_all", calls |-> <<transfer, remark>>]

\* A rejected submission is signed and sent a second time.
signAndSend_Retry(self, wrap, calls, net, before) ==
    Result(TRUE,
           IF net THEN before \o <<"getMyKeyPair", "signAndSend">>
           ELSE before \o <<"getMyKeyPair", "signAndSend",
                            "getMyKeyPair", "signAndSend">>,
           <<Extrinsic(PubOf(self.privateKey), wrap, calls)>>, <<>>)

\* tx.signAndSend(await this.getMyKeyPair()); net is whether the node accepts.
signAndSend(self, wrap, calls, net, before) ==
    IF net
    THEN Result(TRUE, before \o <<"getMyKeyPair", "signAndSend">>,
                <<Extrinsic(PubOf(self.privateKey), wrap, calls)>>, <<>>)
    ELSE Result(FALSE, before \o <<"getMyKeyPair", "signAndSend">>,
                <<>>, <<"signAndSend rejected">>)

Wrapped(name, r) ==
    IF r.ok THEN r ELSE Result(FALSE, r.trace, r.sub, <<name>> \o r.err)

\* The recipient is checked only on the path without a memo.
transferWithMemoBody_LateCheck(self, to, amount, memo, net) ==
    IF ~memo.some
    THEN IF ~validateAddress(to)
         THEN Result(FALSE, <<"validateAddress">>, <<>>,
                     <<"to is not a valid address">>)
         ELSE signAndSend(self, "none", <<TransferCall(to, amount)>>, net,
                          <<"validateAddress">>)
    ELSE LET m == encryptMemo(self, memo, to)
             b == NativeMemoBatch(TransferCall(to, amount),
                                  RemarkCall(RemarkPayload(m)))
         IN  IF ~m.ok
             THEN Result(FALSE, m.trace, <<>>, <<"encryptMemo failed">>)
             ELSE signAndSend(self, b.wrap, b.calls, net, m.trace)

transferWithMemoBody(self, to, amount, memo, net) ==
    IF ~validateAddress(to)
    THEN Result(FALSE, <<"validateAddress">>, <<>>,
                <<"to is not a valid address">>)
    ELSE IF ~memo.some
    THEN signAndSend(self, "none", <<TransferCall(to, amount)>>, net,
                     <<"validateAddress">>)
    ELSE LET m == encryptMemo(self, memo, to)
             tr == <<"validateAddress">> \o m.trace
             b == NativeMemoBatch(TransferCall(to, amount),
                                  RemarkCall(RemarkPayload(m)))
         IN  IF ~m.ok
             THEN Result(FALSE, tr, <<>>, <<"encryptMemo failed">>)
             ELSE signAndSend(self, b.wrap, b.calls, net, tr)

transferWithMemo(self, to, amount, memo, net) ==
    Wrapped("Failed to transferWithMemo",
            transferWithMemoBody(self, to, amount, memo, net))

sendMessage(self, to, message, net) ==
    Wrapped("Failed to sendMessage",
            IF ~message.some
            THEN Result(FALSE, <<>>, <<>>, <<"message is null">>)
            ELSE transferWithMemo(self, to, 0, message, net))

\* The branch for a null memo is missing: a null memo is batched as well.
assetsTransferWithMemoBody_AlwaysBatch(self, to, amount, assetId, memo, net) ==
    IF assetId = "null"
    THEN transferWithMemo(self, to, amount, memo, net)
    ELSE IF ~validateAddress(to)
    THEN Result(FALSE, <<"validateAddress">>, <<>>,
                <<"to is not a valid address">>)
    ELSE LET m == encryptMemo(self, memo, to)
             tr == <<"validateAddress">> \o m.trace
             b == AssetMemoBatch(AssetTransferCall(assetId, to, amount),
                                 RemarkCall(RemarkPayload(m)))
         IN  IF ~m.ok
             THEN Result(FALSE, tr, <<>>, <<"encryptMemo failed">>)
             ELSE signAndSend(self, b.wrap, b.calls, net, tr)

assetsTransferWithMemoBody(self, to, amount, assetId, memo, net) ==
    IF assetId = "null"
    THEN transferWithMemo(self, to, amount, memo, net)
    ELSE IF ~validateAddress(to)
    THEN Result(FALSE, <<"validateAddress">>, <<>>,
                <<"to is not a valid address">>)
    ELSE IF ~memo.some
    THEN signAndSend(self, "none", <<AssetTransferCall(assetId, to, amount)>>,
                     net, <<"validateAddress">>)
    ELSE LET m == encryptMemo(self, memo, to)
             tr == <<"validateAddress">> \o m.trace
             b == AssetMemoBatch(AssetTransferCall(assetId, to, amount),
                                 RemarkCall(RemarkPayload(m)))
         IN  IF ~m.ok
             THEN Result(FALSE, tr, <<>>, <<"encryptMemo failed">>)
             ELSE signAndSend(self, b.wrap, b.calls, net, tr)

assetsTransferWithMemo(self, to, amount, assetId, memo, net) ==
    Wrapped("Failed to assetsTransferWithMemo",
            assetsTransferWithMemoBody(self, to, amount, assetId, memo, net))

\* ------------------------------------------------------------ chain
\* Whether one call dispatches: a keep-alive transfer needs the funds.
CallOk(c, signer, b) ==
    IF IsTransfer(c)
    THEN Decodes(c.dest) /\ c.value <= b[<<signer, c.asset>>]
    ELSE TRUE

ApplyCall(c, signer, b) ==
    IF IsTransfer(c) /\ DecodeAddress(c.dest).pk # signer
    THEN [b EXCEPT ![<<signer, c.asset>>] = @ - c.value,
                   ![<<DecodeAddress(c.dest).pk, c.asset>>] = @ + c.value]
    ELSE b

\* Dispatch calls[i..] in order; stop tells whether a failure interrupts.
RECURSIVE RunCalls(_, _, _, _, _)
RunCalls(calls, i, signer, b, stop) ==
    IF i > Len(calls)
    THEN [applied |-> <<>>, bal |-> b, failed |-> FALSE]
    ELSE IF CallOk(calls[i], signer, b)
    THEN LET rest == RunCalls(calls, i + 1, signer,
                              ApplyCall(calls[i], signer, b), stop)
         IN  [applied |-> <<TRUE>> \o rest.applied, bal |-> rest.bal,
              failed |-> rest.failed]
    ELSE IF stop
    THEN [applied |-> [j \in 1..(Len(calls) - i + 1) |-> FALSE],
          bal |-> b, failed |-> TRUE]
    ELSE LET rest == RunCalls(calls, i + 1, signer, b, stop)
         IN  [applied |-> <<FALSE>> \o rest.applied, bal |-> rest.bal,
              failed |-> TRUE]

\* The runtime executes one extrinsic. batch_all reverts every call when one
\* fails; batch keeps the calls before the failure; force_batch skips it.
ExecuteExtrinsic(ext, b) ==
    LET run == RunCalls(ext.calls, 1, ext.signer, b, ext.wrap # "force_batch")
        atomic == ext.wrap \in {"none", "batch_all"}
    IN  IF atomic /\ run.failed
        THEN [ext |-> ext, success |-> FALSE, bal |-> b,
              applied |-> [j \in 1..Len(ext.calls) |-> FALSE]]
        ELSE [ext |-> ext, success |-> TRUE, bal |-> run.bal,
              applied |-> run.applied]

\* ------------------------------------------------------------ indexer
AssetSymbol(asset) == IF asset = "null" THEN <<"DOT">> ELSE <<"USDt">>

TxHash(i) == <<"0x", i>>

NoIndex == [some |-> FALSE, v |-> 0]

\* The transfer records of extrinsic i, as /api/v2/scan/transfers serves them
\* (success: true, so only transfers that took effect).
TransfersOfBlock(chain, i) ==
    LET blk == chain[i]
        recs == [j \in 1..Len(blk.ext.calls) |->
                    [transfer_id |-> j, extrinsic_index |-> i, hash |-> TxHash(i),
                     from |-> AddressOf(blk.ext.signer),
                     to |-> blk.ext.calls[j].dest,
                     amount |-> blk.ext.calls[j].value,
                     asset_symbol |-> AssetSymbol(blk.ext.calls[j].asset),
                     fee |-> <<"0.01 DOT">>, block_timestamp |-> i]]
    IN  SelectSeq(recs, LAMBDA r :
            blk.applied[r.transfer_id] /\ IsTransfer(blk.ext.calls[r.transfer_id]))

\* Newest first; address and extrinsic_index are optional filters.
RECURSIVE IndexerTransfers(_, _, _, _)
IndexerTransfers(chain, i, address, extrinsic_index) ==
    IF i = 0 THEN <<>>
    ELSE LET here == SelectSeq(TransfersOfBlock(chain, i),
                 LAMBDA t :
                    /\ (address.some => address.v \in {t.from, t.to})
                    /\ (extrinsic_index.some => extrinsic_index.v = i))
         IN  here \o IndexerTransfers(chain, i - 1, address, extrinsic_index)

CallParams(c) ==
    IF IsRemark(c) THEN <<[name |-> "remark", value |-> c.remark]>>
    ELSE IF c.call_module = "Assets"
    THEN <<[name |-> "id", value |-> <<c.asset>>],
           [name |-> "target", value |-> c.dest],
           [name |-> "amount", value |-> <<c.value>>]>>
    ELSE <<[name |-> "dest", value |-> c.dest],
           [name |-> "value", value |-> <<c.value>>]>>

InnerCall(c) ==
    [call_module |-> c.call_module, call_name |-> c.call_name,
     params |-> CallParams(c)]

\* The parameter record of extrinsic i, as /api/scan/extrinsic/params serves it.
ParamsOfBlock(chain, i) ==
    LET ext == chain[i].ext
    IN  [extrinsic_index |-> i,
         params |->
            IF ext.wrap = "none" THEN CallParams(ext.calls[1])
            ELSE <<[name |-> "calls",
                    value |-> [j \in 1..Len(ext.calls) |-> InnerCall(ext.calls[j])]]>>]

\* ------------------------------------------------------------ SubscanApi
\* Takes the first inner call of the batch instead of the last.
MemoOfRecord_FirstCall(item) ==
    LET absent == [threw |-> FALSE, extrinsic_index |-> item.extrinsic_index,
                   memo |-> None]
    IN  IF Len(item.params) = 1 /\ item.params[1].name = "calls"
           /\ Len(item.params[1].value) > 0
        THEN LET first_call == item.params[1].value[1] IN
             IF /\ first_call.call_module = "System"
                /\ first_call.call_name \in {"remark_with_event", "remark"}
                /\ Len(first_call.params) > 0
             THEN [threw |-> FALSE, extrinsic_index |-> item.extrinsic_index,
                   memo |-> Some(first_call.params[1].value)]
             ELSE absent
        ELSE absent

\* One item of the data.data.map callback of getMemoByTransferExtrinsics:
\* threw tells that the callback raised a TypeError.
MemoOfRecord(item) ==
    LET absent == [threw |-> FALSE, extrinsic_index |-> item.extrinsic_index,
                   memo |-> None]
        thrown == [threw |-> TRUE, extrinsic_index |-> item.extrinsic_index,
                   memo |-> None]
    IN  IF Len(item.params) = 1 /\ item.params[1].name = "calls"
        THEN LET batch_all_value == item.params[1].value IN
             IF Len(batch_all_value) = 0 THEN thrown
             ELSE LET last_call == batch_all_value[Len(batch_all_value)] IN
                  IF /\ last_call.call_module = "System"
                     /\ last_call.call_name \in {"remark_with_event", "remark"}
                  THEN IF Len(last_call.params) = 0 THEN thrown
                       ELSE [threw |-> FALSE,
                             extrinsic_index |-> item.extrinsic_index,
                             memo |-> Some(last_call.params[1].value)]
                  ELSE absent
        ELSE absent

\* An exception in the map callback rejects the whole call.
getMemoByTransferExtrinsics(data) ==
    LET exs == [k \in 1..Len(data) |-> MemoOfRecord(data[k])]
    IN  IF \E k \in 1..Len(data) : exs[k].threw
        THEN [ok |-> FALSE, v |-> <<>>]
        ELSE [ok |-> TRUE,
              v |-> [k \in 1..Len(data) |->
                        [extrinsic_index |-> exs[k].extrinsic_index,
                         memo |-> exs[k].memo]]]

\* The memo of the first entry of the map, whatever its locator.
FindMemo_First(memos, extrinsic_index) ==
    IF Len(memos) = 0 THEN None ELSE memos[1].memo

\* memos.find((i) => i.extrinsic_index === item.extrinsic_index)?.memo
FindMemo(memos, extrinsic_index) ==
    LET hits == { k \in 1..Len(memos) : memos[k].extrinsic_index = extrinsic_index }
    IN  IF hits = {} THEN None
        ELSE memos[CHOOSE k \in hits : \A h \in hits : k <= h].memo

\* The parameter records the indexer serves for the transfers' locators.
IndexerParams(chain, transfers) ==
    [k \in 1..Len(transfers) |-> ParamsOfBlock(chain, transfers[k].extrinsic_index)]

\* Compares the queried address with the transfer's to field.
Direction_ByRecipient(item, address) ==
    IF address.some /\ item.to = address.v THEN "Send" ELSE "Receive"

\* item.from === address ? "Send" : "Receive"; address may be undefined.
Direction(item, address) ==
    IF address.some /\ item.from = address.v THEN "Send" ELSE "Receive"

addressTransferHistory(chain, address, extrinsic_index) ==
    LET transfers == IndexerTransfers(chain, Len(chain), address, extrinsic_index)
        memos == getMemoByTransferExtrinsics(IndexerParams(chain, transfers))
    IN  IF ~memos.ok THEN [ok |-> FALSE, v |-> <<>>]
        ELSE [ok |-> TRUE,
              v |-> [k \in 1..Len(transfers) |->
                 LET item == transfers[k] IN
                 [type |-> Direction(item, address),
                  sender |-> item.from,
                  recipient |-> item.to,
                  tokenSymbol |-> item.asset_symbol,
                  amount |-> item.amount,
                  memo |-> FindMemo(memos.v, item.extrinsic_index),
                  fee |-> item.fee,
                  timestamp |-> item.block_timestamp,
                  txId |-> item.hash,
                  extrinsic_index |-> item.extrinsic_index]]]

\* The catch block clears the memo instead of keeping it.
DecryptOne_ClearOnFail(transfer, cryptMessage) ==
    LET memoJson == convertJsonToEncryptedMemo(transfer.memo)
        plain == decryptMessage(cryptMessage, memoJson.v.e)
        called == memoJson.ok /\ cryptMessage.present
    IN  IF memoJson.ok /\ cryptMessage.present /\ plain.ok
        THEN [rejected |-> FALSE, called |-> called, row |-> [transfer EXCEPT !.memo = Some(plain.v)]]
        ELSE [rejected |-> FALSE, called |-> called, row |-> [transfer EXCEPT !.memo = None]]

\* The try block has no catch: a failure rejects the callback's promise.
DecryptOne_NoCatch(transfer, cryptMessage) ==
    LET memoJson == convertJsonToEncryptedMemo(transfer.memo)
        plain == decryptMessage(cryptMessage, memoJson.v.e)
        called == memoJson.ok /\ cryptMessage.present
    IN  IF memoJson.ok /\ cryptMessage.present /\ plain.ok
        THEN [rejected |-> FALSE, called |-> called, row |-> [transfer EXCEPT !.memo = Some(plain.v)]]
        ELSE [rejected |-> TRUE, called |-> called, row |-> transfer]

\* The raw memo is handed to decryptMessage before it is parsed.
DecryptOne_DecryptFirst(transfer, cryptMessage) ==
    LET memoJson == convertJsonToEncryptedMemo(transfer.memo)
        plain == decryptMessage(cryptMessage, memoJson.v.e)
        called == cryptMessage.present
    IN  IF memoJson.ok /\ cryptMessage.present /\ plain.ok
        THEN [rejected |-> FALSE, called |-> called, row |-> [transfer EXCEPT !.memo = Some(plain.v)]]
        ELSE [rejected |-> FALSE, called |-> called, row |-> transfer]

\* A row whose memo fails to decrypt loses its direction.
DecryptOne_DropType(transfer, cryptMessage) ==
    LET memoJson == convertJsonToEncryptedMemo(transfer.memo)
        plain == decryptMessage(cryptMessage, memoJson.v.e)
        called == memoJson.ok /\ cryptMessage.present
    IN  IF memoJson.ok /\ cryptMessage.present /\ plain.ok
        THEN [rejected |-> FALSE, called |-> called, row |-> [transfer EXCEPT !.memo = Some(plain.v)]]
        ELSE [rejected |-> FALSE, called |-> called, row |-> [transfer EXCEPT !.type = "Unknown"]]

\* The async callback of decryptTransfersMemo for one row: the try block and
\* its catch. rejected tells that the callback's promise rejects, called that
\* cryptMessage.decryptMessage was invoked.
DecryptOne(transfer, cryptMessage) ==
    LET memoJson == convertJsonToEncryptedMemo(transfer.memo)
        plain == decryptMessage(cryptMessage, memoJson.v.e)
        called == memoJson.ok /\ cryptMessage.present
    IN  IF memoJson.ok /\ cryptMessage.present /\ plain.ok
        THEN [rejected |-> FALSE, called |-> called, row |-> [transfer EXCEPT !.memo = Some(plain.v)]]
        ELSE [rejected |-> FALSE, called |-> called, row |-> transfer]

\* Promise.all over the callbacks: one rejection rejects the call.
decryptTransfersMemo(transfers, cryptMessage) ==
    LET txs == [k \in 1..Len(transfers) |-> DecryptOne(transfers[k], cryptMessage)]
    IN  IF \E k \in 1..Len(transfers) : txs[k].rejected
        THEN [ok |-> FALSE, v |-> <<>>]
        ELSE [ok |-> TRUE, v |-> [k \in 1..Len(transfers) |-> txs[k].row]]

\* Per row, whether its callback invoked cryptMessage.decryptMessage.
DecryptCalls(transfers, cryptMessage) ==
    [k \in 1..Len(transfers) |-> DecryptOne(transfers[k], cryptMessage).called]

\* getTransferByHash: hash -> locator (the indexer's lookup), then the
\* transfers of that locator with no address; transfer[0] ?? null.
getExtrinsicIndexByHash(chain, hash) ==
    IF \E i \in 1..Len(chain) : TxHash(i) = hash
    THEN [some |-> TRUE, v |-> CHOOSE i \in 1..Len(chain) : TxHash(i) = hash]
    ELSE NoIndex

\* v is <<row>>, or <<>> for null; an unknown hash has no data to read the
\* locator from.
getTransferByHash(chain, hash) ==
    LET extrinsicIndex == getExtrinsicIndexByHash(chain, hash)
        transfer == addressTransferHistory(chain, None, extrinsicIndex)
    IN  IF ~extrinsicIndex.some \/ ~transfer.ok
        THEN [ok |-> FALSE, v |-> <<>>]
        ELSE [ok |-> TRUE,
              v |-> IF Len(transfer.v) > 0 THEN <<transfer.v[1]>> ELSE <<>>]

\* The row is returned as the indexer join produced it.
getTransferMemo_NoDecrypt(self, chain, hash) ==
    LET txDetails == getTransferByHash(chain, hash)
    IN  IF ~txDetails.ok \/ Len(txDetails.v) = 0
        THEN [ok |-> FALSE, v |-> <<>>]
        ELSE [ok |-> TRUE, v |-> <<txDetails.v[1]>>]

\* SubstrateChain.getTransferMemo: the row of a hash, memo decrypted.
getTransferMemo(self, chain, hash) ==
    LET txDetails == getTransferByHash(chain, hash)
    IN  IF ~txDetails.ok \/ Len(txDetails.v) = 0
        THEN [ok |-> FALSE, v |-> <<>>]
        ELSE LET transfer == decryptTransfersMemo(<<txDetails.v[1]>>, self.cryptMessage)
             IN  IF transfer.ok THEN [ok |-> TRUE, v |-> <<transfer.v[1]>>]
                 ELSE [ok |-> FALSE, v |-> <<>>]

\* ------------------------------------------------------------ inputs
\* The wallets that send: alice with and without an encryption service, eve.
Objects ==
    { ChainObject("sk_alice", TRUE), ChainObject("sk_alice", FALSE),
      ChainObject("sk_eve", TRUE) }

\* bob's address, bob's address under another network's prefix, and garbage.
ToInputs == { <<"1bob">>, <<"5bob">>, <<"invalid-address-string">> }

Amounts == {0, 1}

AssetIds == {"null", "18"}

Plaintexts == { <<>>, <<"hello bob">> }

MemoInputs == {None} \cup { Some(p) : p \in Plaintexts }

\* ------------------------------------------------------------ state machine
NoCall ==
    [op |-> "none", self |-> ChainObject("sk_alice", TRUE), to |-> <<>>,
     amount |-> 0, assetId |-> "null", memo |-> None, net |-> TRUE,
     res |-> Result(TRUE, <<>>, <<>>, <<>>)]

\* seen is the number of extrinsics the indexer held when the read was made.
NoRead ==
    [op |-> "none", reader |-> "sk_alice", address |-> None, index |-> NoIndex,
     seen |-> 0,
     res |-> [ok |-> TRUE, v |-> <<>>]]

NotRun == [run |-> FALSE, ok |-> TRUE, v |-> <<>>]

NotDecrypted == [run |-> FALSE, ok |-> TRUE, v |-> <<>>, calls |-> <<>>]

NoJob == [active |-> FALSE, cbs |-> <<>>, order |-> <<>>]

NoCrypt == [present |-> FALSE, sk |-> "sk_alice", type |-> "sr25519"]

\* The fields of a SubstrateChain that create has not returned yet.
NoObject ==
    [made |-> FALSE, rpcUrl |-> "", api |-> [url |-> "", connected |-> FALSE],
     chainName |-> "", ss58Format |-> 0, keyPairType |-> "sr25519",
     privateKey |-> "sk_alice", cryptMessage |-> NoCrypt,
     res |-> [op |-> "none", ok |-> TRUE, rpcUrl |-> "",
              api |-> [url |-> "", connected |-> FALSE],
              chainName |-> "", ss58Format |-> 0, keyPairType |-> "sr25519"]]

NoFlight ==
    [pc |-> "idle", to |-> <<>>, startKey |-> "none", encryptedBy |-> "none",
     signedBy |-> "none", ok |-> TRUE]

\* An AssetHubService after its constructor; res is the last call made on it:
\* the settings start read, whether an error was raised inside it, and whether
\* the call threw to its caller.
NoService ==
    [chain |-> NoObject, subscanApi |-> FALSE,
     res |-> [op |-> "none", rpcUrl |-> "unset", privateKey |-> "unset",
              failed |-> FALSE, threw |-> FALSE]]

\* The TRANSFER_ASSETS handler before it has run; afterwards, what it read,
\* what it compared, and the amount it passed to the transfer call.
NoHandler ==
    [ran |-> FALSE, success |-> TRUE, assetId |-> "null", amount |-> 0,
     balance |-> 0, requiredAmount |-> 0, passed |-> 0, submitted |-> FALSE]

Init ==
    /\ pending = <<>>
    /\ blocks = <<>>
    /\ bal = [k \in {a.pk : a \in Accounts} \X AssetIds |->
                 IF k[1] = "pk_alice" THEN 1 ELSE 0]
    /\ last = NoCall
    /\ sent = <<>>
    /\ rows = NoRead
    /\ recIn = <<>>
    /\ recOut = NotRun
    /\ decIn = <<>>
    /\ decWho = NoCrypt
    /\ decOut = NotDecrypted
    /\ job = NoJob
    /\ chainObj = NoObject /\ flight = NoFlight
    /\ service = NoService /\ handler = NoHandler

\* A client makes one call at a time and takes its result before the next.
Idle == last = NoCall /\ rows = NoRead

Room == Idle /\ Len(pending) + Len(blocks) < MaxTx

Called(op, self, to, amount, assetId, memo, net, res) ==
    LET call == [op |-> op, self |-> self, to |-> to, amount |-> amount,
                 assetId |-> assetId, memo |-> memo]
    IN  /\ last' = [op |-> op, self |-> self, to |-> to, amount |-> amount,
                    assetId |-> assetId, memo |-> memo, net |-> net, res |-> res]
        /\ pending' = pending \o res.sub
        /\ sent' = IF Len(res.sub) > 0 THEN Append(sent, call) ELSE sent
        /\ UNCHANGED <<blocks, bal, rows, recIn, recOut, decIn, decWho, decOut, job,
                   chainObj, flight, service, handler>>

\* The client takes the result of its call.
Return ==
    /\ ~Idle
    /\ last' = NoCall
    /\ rows' = NoRead
    /\ UNCHANGED <<pending, blocks, bal, sent, recIn, recOut, decIn, decWho, decOut, job,
                   chainObj, flight, service, handler>>

CallTransferWithMemo ==
    /\ Room
    /\ \E self \in Objects, to \in ToInputs, amount \in Amounts,
          memo \in MemoInputs, net \in BOOLEAN :
            Called("transferWithMemo", self, to, amount, "null", memo, net,
                   transferWithMemo(self, to, amount, memo, net))

CallAssetsTransferWithMemo ==
    /\ Room
    /\ \E self \in Objects, to \in ToInputs, amount \in Amounts,
          assetId \in AssetIds, memo \in MemoInputs, net \in BOOLEAN :
            Called("assetsTransferWithMemo", self, to, amount, assetId, memo, net,
                   assetsTransferWithMemo(self, to, amount, assetId, memo, net))

CallSendMessage ==
    /\ Room
    /\ \E self \in Objects, to \in ToInputs, message \in MemoInputs,
          net \in BOOLEAN :
            Called("sendMessage", self, to, 0, "null", message, net,
                   sendMessage(self, to, message, net))

\* The chain executes the oldest pending extrinsic.
ChainExecute ==
    /\ Len(pending) > 0
    /\ LET done == ExecuteExtrinsic(Head(pending), bal)
       IN  /\ blocks' = Append(blocks, [ext |-> done.ext, success |-> done.success,
                                        applied |-> done.applied])
           /\ bal' = done.bal
    /\ pending' = Tail(pending)
    /\ UNCHANGED <<last, sent, rows, recIn, recOut, decIn, decWho, decOut, job,
                   chainObj, flight, service, handler>>

\* MY_WALLET_HISTORY: the reader's transfers, memos decrypted with its service.
ReadHistory ==
    /\ Idle
    /\ Len(blocks) > 0
    /\ \E sk \in SecretKeys :
        LET self == ChainObject(sk, TRUE)
            history == addressTransferHistory(blocks, Some(getMyAddress(self)), NoIndex)
        IN  rows' = [op |-> "history", reader |-> sk,
                     address |-> Some(getMyAddress(self)), index |-> NoIndex,
                     seen |-> Len(blocks),
                     res |-> IF history.ok
                             THEN decryptTransfersMemo(history.v, self.cryptMessage)
                             ELSE [ok |-> FALSE, v |-> <<>>]]
    /\ UNCHANGED <<pending, blocks, bal, last, sent, recIn, recOut, decIn, decWho, decOut, job,
                   chainObj, flight, service, handler>>

ReadTransferMemo ==
    /\ Idle
    /\ Len(blocks) > 0
    /\ \E sk \in SecretKeys, i \in 1..Len(blocks) :
        rows' = [op |-> "getTransferMemo", reader |-> sk,
                 address |-> None, index |-> [some |-> TRUE, v |-> i],
                 seen |-> Len(blocks),
                 res |-> getTransferMemo(ChainObject(sk, TRUE), blocks, TxHash(i))]
    /\ UNCHANGED <<pending, blocks, bal, last, sent, recIn, recOut, decIn, decWho, decOut, job,
                   chainObj, flight, service, handler>>

\* A caller of SubscanApi looks a transfer up by its hash; no identity is
\* involved.
ReadTransferByHash ==
    /\ Idle
    /\ Len(blocks) > 0
    /\ \E i \in 1..Len(blocks) :
        rows' = [op |-> "getTransferByHash", reader |-> "sk_alice",
                 address |-> None, index |-> [some |-> TRUE, v |-> i],
                 seen |-> Len(blocks),
                 res |-> getTransferByHash(blocks, TxHash(i))]
    /\ UNCHANGED <<pending, blocks, bal, last, sent, recIn, recOut, decIn, decWho, decOut, job,
                   chainObj, flight, service, handler>>

Next ==
    \/ CallTransferWithMemo
    \/ CallAssetsTransferWithMemo
    \/ CallSendMessage
    \/ Return
    \/ ChainExecute
    \/ ReadHistory
    \/ ReadTransferMemo
    \/ ReadTransferByHash

Spec == Init /\ [][Next]_vars

\* ------------------------------------------------------------ reconciliation alone
Envelope(fromSk, toAddr, plaintext) ==
    JSONstringify([e |-> encryptMessage([present |-> TRUE, sk |-> fromSk, type |-> "sr25519"],
                                        plaintext, getAddressPublicKey(toAddr).v),
                   t |-> "sr25519", to |-> toAddr])

RemarkInner(name, params) ==
    [call_module |-> "System", call_name |-> name, params |-> params]

Batch(calls) == <<[name |-> "calls", value |-> calls]>>

\* Parameter lists the indexer can serve: plain calls, batches with the remark
\* last, first or missing, an empty batch, a remark without its parameter.
ParamShapes ==
    LET t == InnerCall(TransferCall(<<"1bob">>, 1))
        a == InnerCall(AssetTransferCall("18", <<"1bob">>, 1))
        env == Envelope("sk_alice", <<"1bob">>, <<"hello bob">>)
        R(n, p) == RemarkInner(n, <<[name |-> "remark", value |-> p]>>)
    IN  << t.params,
           R("remark", env).params,
           R("remark", <<"thanks">>).params,
           Batch(<<>>),
           Batch(<<t>>),
           Batch(<<t, a>>),
           Batch(<<t, RemarkInner("remark", <<>>)>>),
           Batch(<<t, RemarkInner("set_heap_pages",
                                  <<[name |-> "pages", value |-> <<"8">>]>>)>>),
           Batch(<<t, R("remark", env)>>),
           Batch(<<a, R("remark", <<"thanks">>)>>),
           Batch(<<t, R("remark_with_event", env)>>),
           Batch(<<R("remark", env), t>>),
           Batch(<<R("remark", env)>>) >>

\* Nothing on chain, no call made; the pure parts start from empty inputs.
InitPure ==
    /\ pending = <<>> /\ blocks = <<>> /\ sent = <<>>
    /\ bal = [k \in {a.pk : a \in Accounts} \X AssetIds |-> 0]
    /\ last = NoCall /\ rows = NoRead
    /\ recIn = <<>> /\ recOut = NotRun
    /\ decIn = <<>> /\ decWho = NoCrypt /\ decOut = NotDecrypted
    /\ job = NoJob
    /\ chainObj = NoObject /\ flight = NoFlight
    /\ service = NoService /\ handler = NoHandler

\* The indexer's response gains the record of one more locator.
ServeRecord ==
    /\ Len(recIn) < MaxRecs
    /\ \E n \in 1..Len(ParamShapes) :
          recIn' = Append(recIn, [extrinsic_index |-> Len(recIn) + 1,
                                  params |-> ParamShapes[n]])
    /\ recOut' = NotRun
    /\ UNCHANGED <<pending, blocks, bal, last, sent, rows, decIn, decWho, decOut, job,
                   chainObj, flight, service, handler>>

GetMemos ==
    /\ Len(recIn) > 0
    /\ ~recOut.run
    /\ recOut' = [run |-> TRUE] @@ getMemoByTransferExtrinsics(recIn)
    /\ UNCHANGED <<pending, blocks, bal, last, sent, rows, recIn, decIn, decWho, decOut, job,
                   chainObj, flight, service, handler>>

NextRecon == ServeRecord \/ GetMemos

SpecRecon == InitPure /\ [][NextRecon]_vars

\* ------------------------------------------------------------ decryption alone
BaseRow(k, memo) ==
    [type |-> "Receive", sender |-> <<"1alice">>, recipient |-> <<"1bob">>,
     tokenSymbol |-> <<"DOT">>, amount |-> 1, memo |-> memo,
     fee |-> <<"0.01 DOT">>, timestamp |-> k, txId |-> TxHash(k),
     extrinsic_index |-> k]

\* Memo fields a history row can carry: absent, legacy text, envelopes to bob
\* and to eve, an envelope whose ciphertext is corrupted, truncated JSON, an
\* envelope to bob written by an ed25519 wallet.
MemoShapes ==
    { None, Some(<<"thanks">>),
      Some(JSONstringify([e |-> encryptMessage([present |-> TRUE, sk |-> "sk_alice",
                                                type |-> "ed25519"],
                                               <<"hello bob">>, "pk_bob"),
                          t |-> "ed25519", to |-> <<"1bob">>])),
      Some(Envelope("sk_alice", <<"1bob">>, <<"hello bob">>)),
      Some(Envelope("sk_alice", <<"1eve">>, <<"hello eve">>)),
      Some(JSONstringify([e |-> <<"3hwdQ1gB">>, t |-> "sr25519", to |-> <<"1bob">>])),
      Some(<<"{e:", "ct">>) }

CryptInputs ==
    { [present |-> TRUE, sk |-> sk, type |-> "sr25519"] : sk \in SecretKeys }
      \cup {NoCrypt}

AddRow ==
    /\ Len(decIn) < MaxRows
    /\ ~job.active
    /\ \E memo \in MemoShapes : decIn' = Append(decIn, BaseRow(Len(decIn) + 1, memo))
    /\ decWho' = NoCrypt
    /\ decOut' = NotDecrypted
    /\ job' = NoJob
    /\ UNCHANGED <<pending, blocks, bal, last, sent, rows, recIn, recOut,
                   chainObj, flight, service, handler>>

DecryptRows ==
    /\ Len(decIn) > 0
    /\ ~decOut.run
    /\ \E crypt \in CryptInputs :
          /\ decWho' = crypt
          /\ decOut' = [run |-> TRUE, calls |-> DecryptCalls(decIn, crypt)]
                            @@ decryptTransfersMemo(decIn, crypt)
    /\ UNCHANGED <<pending, blocks, bal, last, sent, rows, recIn, recOut, decIn, job,
                   chainObj, flight, service, handler>>

NextDecrypt == AddRow \/ DecryptRows

SpecDecrypt == InitPure /\ [][NextDecrypt]_vars

\* ------------------------------------------------------------ decryption, step by step
\* One callback of transfers.map run to its first suspension: the parse is
\* synchronous; the callback then awaits decryptMessage, or has already
\* reached its catch block.
CallbackStart(transfer, cryptMessage) ==
    LET memoJson == convertJsonToEncryptedMemo(transfer.memo)
    IN  IF memoJson.ok /\ cryptMessage.present
        THEN [pc |-> "await", called |-> TRUE, e |-> memoJson.v.e, row |-> transfer]
        ELSE [pc |-> "done", called |-> FALSE, e |-> <<>>, row |-> transfer]

\* The awaited decryptMessage settles: the memo is assigned, or the catch
\* block keeps it.
CallbackResume(cb, cryptMessage) ==
    LET plain == decryptMessage(cryptMessage, cb.e)
    IN  [cb EXCEPT !.pc = "done",
                   !.row = IF plain.ok THEN [cb.row EXCEPT !.memo = Some(plain.v)]
                           ELSE cb.row]

\* The rows are collected in the order the callbacks completed.
PromiseAll_CompletionOrder(cbs, order) ==
    [k \in 1..Len(cbs) |-> cbs[order[k]].row]

\* Promise.all(txs): the callbacks' rows at the callbacks' input positions.
PromiseAll(cbs, order) ==
    [k \in 1..Len(cbs) |-> cbs[k].row]

\* transfers.map(async ...): every callback runs to its first suspension.
StartDecrypt ==
    /\ Len(decIn) > 0
    /\ ~job.active /\ ~decOut.run
    /\ \E crypt \in CryptInputs :
          LET cbs == [k \in 1..Len(decIn) |-> CallbackStart(decIn[k], crypt)]
          IN  /\ decWho' = crypt
              /\ job' = [active |-> TRUE, cbs |-> cbs,
                         order |-> SelectSeq([k \in 1..Len(decIn) |-> k],
                                             LAMBDA k : cbs[k].pc = "done")]
    /\ UNCHANGED <<pending, blocks, bal, last, sent, rows, recIn, recOut, decIn, decOut,
                   chainObj, flight, service, handler>>

\* The decryption one callback awaits settles, in any order.
SettleDecrypt ==
    /\ job.active
    /\ \E k \in 1..Len(job.cbs) :
          /\ job.cbs[k].pc = "await"
          /\ job' = [job EXCEPT !.cbs[k] = CallbackResume(job.cbs[k], decWho),
                                !.order = Append(job.order, k)]
    /\ UNCHANGED <<pending, blocks, bal, last, sent, rows, recIn, recOut, decIn,
                   decWho, decOut,
                   chainObj, flight, service, handler>>

\* Every callback has completed: await Promise.all(txs) resumes.
FinishDecrypt ==
    /\ job.active
    /\ \A k \in 1..Len(job.cbs) : job.cbs[k].pc = "done"
    /\ decOut' = [run |-> TRUE, ok |-> TRUE, v |-> PromiseAll(job.cbs, job.order),
                  calls |-> [k \in 1..Len(job.cbs) |-> job.cbs[k].called]]
    /\ job' = [job EXCEPT !.active = FALSE]
    /\ UNCHANGED <<pending, blocks, bal, last, sent, rows, recIn, recOut, decIn, decWho,
                   chainObj, flight, service, handler>>

NextConc == AddRow \/ StartDecrypt \/ SettleDecrypt \/ FinishDecrypt

SpecConc == InitPure /\ [][NextConc]_vars

\* ------------------------------------------------------------ history alone
\* Extrinsics other wallets and clients sign: plain transfers, batches with
\* the remark last, first or missing, two transfers in one batch, a remark
\* with no transfer.
ExtrinsicShapes ==
    LET env == Envelope("sk_alice", <<"1bob">>, <<"hello bob">>)
    IN  { Extrinsic("pk_alice", "none", <<TransferCall(<<"1bob">>, 1)>>),
          Extrinsic("pk_alice", "batch_all",
                    <<TransferCall(<<"1bob">>, 1), RemarkCall(env)>>),
          Extrinsic("pk_alice", "batch_all",
                    <<TransferCall(<<"1bob">>, 0), TransferCall(<<"1eve">>, 1),
                      RemarkCall(env)>>),
          Extrinsic("pk_alice", "batch",
                    <<TransferCall(<<"1bob">>, 1), TransferCall(<<"1eve">>, 1)>>),
          Extrinsic("pk_bob", "batch_all",
                    <<TransferCall(<<"1alice">>, 1), RemarkCall(<<"thanks">>)>>),
          Extrinsic("pk_bob", "none", <<TransferCall(<<"1alice">>, 0)>>),
          Extrinsic("pk_eve", "batch_all",
                    <<RemarkCall(env), TransferCall(<<"1bob">>, 0)>>),
          Extrinsic("pk_alice", "none", <<RemarkCall(<<"thanks">>)>>) }

QueryAddresses == {None} \cup { Some(r.addr) : r \in AddressTable }

\* The chain executes an extrinsic and the indexer holds it.
IndexExtrinsic ==
    /\ Idle
    /\ Len(blocks) < MaxIndexed
    /\ \E ext \in ExtrinsicShapes :
          LET done == ExecuteExtrinsic(ext, bal)
          IN  /\ blocks' = Append(blocks, [ext |-> done.ext, success |-> done.success,
                                           applied |-> done.applied])
              /\ bal' = done.bal
    /\ UNCHANGED <<pending, last, sent, rows, recIn, recOut, decIn, decWho, decOut, job,
                   chainObj, flight, service, handler>>

QueryHistory ==
    /\ Idle
    /\ Len(blocks) > 0
    /\ \E address \in QueryAddresses,
          extrinsic_index \in {NoIndex} \cup
                              { [some |-> TRUE, v |-> i] : i \in 1..Len(blocks) } :
          rows' = [op |-> "addressTransferHistory", reader |-> "sk_alice",
                   address |-> address, index |-> extrinsic_index,
                   seen |-> Len(blocks),
                   res |-> addressTransferHistory(blocks, address, extrinsic_index)]
    /\ UNCHANGED <<pending, blocks, bal, last, sent, recIn, recOut, decIn, decWho, decOut, job,
                   chainObj, flight, service, handler>>

NextHistory == IndexExtrinsic \/ QueryHistory \/ Return

SpecHistory == Init /\ [][NextHistory]_vars

\* ------------------------------------------------------------ SubstrateChain lifecycle
\* RPC endpoints: two nodes of the Asset Hub, a node of another chain, and a
\* URL nothing answers on.
Endpoints ==
    { [url |-> "https://rpc-asset-hub-polkadot.luckyfriday.io", reachable |-> TRUE, chain |-> "Polkadot Asset Hub"],
      [url |-> "wss://hub-b", reachable |-> TRUE, chain |-> "Polkadot Asset Hub"],
      [url |-> "wss://kusama-hub", reachable |-> TRUE, chain |-> "Kusama Asset Hub"],
      [url |-> "invalid-rpc-url", reachable |-> FALSE, chain |-> ""] }

Urls == { ep.url : ep \in Endpoints }

Endpoint(url) == CHOOSE ep \in Endpoints : ep.url = url

KeypairTypes == {"sr25519", "ed25519"}

\* Private keys a caller may hand over; the last one is not a key.
KeyInputs == {"sk_alice", "sk_bob", "not-a-key"}

\* SR25519AES.build(privateKey): the sr25519 encryption service of a key.
SR25519AESbuild(privateKey) ==
    IF privateKey \in SecretKeys
    THEN [ok |-> TRUE, v |-> [present |-> TRUE, sk |-> privateKey, type |-> "sr25519"]]
    ELSE [ok |-> FALSE, v |-> NoCrypt]

OpResult(op, ok, before) ==
    [op |-> op, ok |-> ok, rpcUrl |-> before.rpcUrl, api |-> before.api,
     chainName |-> before.chainName, ss58Format |-> before.ss58Format,
     keyPairType |-> before.keyPairType]

\* constructor + init(): connect, read the chain's name and properties.
init(rpcUrl, privateKey, keypairType, cryptMessage) ==
    LET ep == Endpoint(rpcUrl)
    IN  [ok |-> ep.reachable,
         v |-> [made |-> TRUE, rpcUrl |-> rpcUrl,
                api |-> [url |-> rpcUrl, connected |-> ep.reachable],
                chainName |-> ep.chain, ss58Format |-> ss58Format,
                keyPairType |-> keypairType, privateKey |-> privateKey,
                cryptMessage |-> cryptMessage,
                res |-> OpResult("create", TRUE, NoObject)]]

\* SubstrateChain.create: the object, or an error.
create(rpcUrl, privateKey, keypairType, cryptMessage) ==
    LET made == init(rpcUrl, privateKey, keypairType, cryptMessage)
    IN  IF ~made.ok THEN [ok |-> FALSE, v |-> made.v]
        ELSE IF cryptMessage.present /\ keypairType # cryptMessage.type
        THEN [ok |-> FALSE, v |-> made.v]
        ELSE made

\* SubstrateChain.updateRpcUrl: disconnect, store the URL, connect, compare
\* the chain name, install the new api. self is the object afterwards.
updateRpcUrl(self, rpcUrl) ==
    LET moved == [self EXCEPT !.api.connected = FALSE, !.rpcUrl = rpcUrl]
        ep == Endpoint(rpcUrl)
    IN  IF ~ep.reachable \/ ep.chain # self.chainName
        THEN [ok |-> FALSE, self |-> moved]
        ELSE [ok |-> TRUE,
              self |-> [moved EXCEPT !.api = [url |-> rpcUrl, connected |-> TRUE]]]

\* SubstrateChain.updatePrivateKey: both fields are assigned once the build
\* has resolved.
updatePrivateKey(self, privateKey) ==
    LET built == SR25519AESbuild(privateKey)
    IN  IF ~built.ok THEN [ok |-> FALSE, self |-> self]
        ELSE [ok |-> TRUE,
              self |-> [self EXCEPT !.cryptMessage = built.v,
                                    !.privateKey = privateKey]]

\* The encryption services a caller can hand to create: none, or the
\* sr25519 service of a key.
CreateCrypts ==
    {NoCrypt} \cup { [present |-> TRUE, sk |-> sk, type |-> "sr25519"] :
                        sk \in {"sk_alice", "sk_bob"} }

Create ==
    /\ ~chainObj.made
    /\ flight.pc = "idle"
    /\ \E rpcUrl \in Urls, privateKey \in {"sk_alice", "sk_bob"},
          keypairType \in KeypairTypes, cryptMessage \in CreateCrypts :
          LET made == create(rpcUrl, privateKey, keypairType, cryptMessage)
          IN  chainObj' = IF made.ok THEN made.v
                          ELSE [NoObject EXCEPT
                                  !.keyPairType = keypairType,
                                  !.cryptMessage = cryptMessage,
                                  !.res = OpResult("create", FALSE, NoObject)]
    /\ UNCHANGED <<pending, blocks, bal, last, sent, rows, recIn, recOut, decIn,
                   decWho, decOut, job, flight, service, handler>>

UpdateRpcUrl ==
    /\ chainObj.made
    /\ \E rpcUrl \in Urls :
          LET done == updateRpcUrl(chainObj, rpcUrl)
          IN  chainObj' = [done.self EXCEPT
                             !.res = OpResult("updateRpcUrl", done.ok, chainObj)]
    /\ UNCHANGED <<pending, blocks, bal, last, sent, rows, recIn, recOut, decIn,
                   decWho, decOut, job, flight, service, handler>>

UpdatePrivateKey ==
    /\ chainObj.made
    /\ \E privateKey \in KeyInputs :
          LET done == updatePrivateKey(chainObj, privateKey)
          IN  chainObj' = [done.self EXCEPT
                             !.res = OpResult("updatePrivateKey", done.ok, chainObj)]
    /\ UNCHANGED <<pending, blocks, bal, last, sent, rows, recIn, recOut, decIn,
                   decWho, decOut, job, flight, service, handler>>

\* transferWithMemo with a memo, up to the await of the encryption: the
\* recipient is validated, its public key resolved, and this.cryptMessage
\* is read and asked to encrypt.
BeginCompose ==
    /\ chainObj.made
    /\ flight.pc # "encrypted"
    /\ Len(pending) < MaxTx
    /\ \E to \in {<<"1bob">>, <<"5bob">>} :
          LET m == encryptMemo(chainObj, Some(<<"hello bob">>), to)
          IN  flight' =
                IF validateAddress(to) /\ m.ok
                THEN [pc |-> "encrypted", to |-> to,
                      startKey |-> chainObj.privateKey,
                      encryptedBy |-> chainObj.cryptMessage.sk,
                      signedBy |-> "none", ok |-> TRUE]
                ELSE [pc |-> "done", to |-> to,
                      startKey |-> chainObj.privateKey, encryptedBy |-> "none",
                      signedBy |-> "none", ok |-> FALSE]
    /\ UNCHANGED <<pending, blocks, bal, last, sent, rows, recIn, recOut, decIn,
                   decWho, decOut, job, chainObj, service, handler>>

\* The encryption has resolved: the batch is built, getMyKeyPair reads
\* this.privateKey, and the batch is signed and sent.
SignCompose ==
    /\ flight.pc = "encrypted"
    /\ flight' = [flight EXCEPT !.pc = "done", !.signedBy = chainObj.privateKey]
    /\ LET m == [e |-> encryptMessage([present |-> TRUE, sk |-> flight.encryptedBy,
                                       type |-> "sr25519"],
                                      <<"hello bob">>,
                                      getAddressPublicKey(flight.to).v),
                 t |-> chainObj.keyPairType, to |-> flight.to]
           b == NativeMemoBatch(TransferCall(flight.to, 0),
                                RemarkCall(JSONstringify(m)))
       IN  pending' = Append(pending, Extrinsic(PubOf(chainObj.privateKey),
                                                b.wrap, b.calls))
    /\ UNCHANGED <<blocks, bal, last, sent, rows, recIn, recOut, decIn,
                   decWho, decOut, job, chainObj, service, handler>>

NextObject ==
    \/ Create
    \/ UpdateRpcUrl
    \/ UpdatePrivateKey
    \/ BeginCompose
    \/ SignCompose

SpecObject == InitPure /\ [][NextObject]_vars

\* ------------------------------------------------------------ AssetHubService
serviceType == "Polkadot Asset Hub"

DEFAULT_ASSET_HUB_RPC_URL == "https://rpc-asset-hub-polkadot.luckyfriday.io"

\* runtime.getSetting: a setting is a value or is not set.
RpcUrlSettings == Urls \cup {"unset"}

KeySettings == KeyInputs \cup {"unset"}

\* AssetHubService.start: the whole body runs inside try; the catch logs the
\* error and the call returns. this.chain is assigned before the chain name
\* is compared.
start(self, rpcUrlSetting, privateKeySetting) ==
    LET withApi == [self EXCEPT !.subscanApi = TRUE]
        rpcUrl == IF rpcUrlSetting = "unset" THEN DEFAULT_ASSET_HUB_RPC_URL
                  ELSE rpcUrlSetting
        built == SR25519AESbuild(privateKeySetting)
        made == create(rpcUrl, privateKeySetting, "sr25519", built.v)
        Done(after, failed) ==
            [after EXCEPT !.res = [op |-> "start", rpcUrl |-> rpcUrlSetting,
                                   privateKey |-> privateKeySetting,
                                   failed |-> failed, threw |-> FALSE]]
    IN  IF self.chain.made THEN Done(withApi, FALSE)
        ELSE IF privateKeySetting = "unset" THEN Done(withApi, TRUE)
        ELSE IF ~built.ok THEN Done(withApi, TRUE)
        ELSE IF ~made.ok THEN Done(withApi, TRUE)
        ELSE Done([withApi EXCEPT !.chain = made.v],
                  made.v.chainName # serviceType)

\* AssetHubService.stop
stop(self) ==
    [self EXCEPT !.chain = NoObject, !.subscanApi = FALSE,
                 !.res = [op |-> "stop", rpcUrl |-> "unset",
                          privateKey |-> "unset", failed |-> FALSE,
                          threw |-> FALSE]]

Start ==
    /\ \E rpcUrlSetting \in RpcUrlSettings, privateKeySetting \in KeySettings :
          service' = start(service, rpcUrlSetting, privateKeySetting)
    /\ UNCHANGED <<pending, blocks, bal, last, sent, rows, recIn, recOut, decIn,
                   decWho, decOut, job, chainObj, flight, handler>>

Stop ==
    /\ service' = stop(service)
    /\ UNCHANGED <<pending, blocks, bal, last, sent, rows, recIn, recOut, decIn,
                   decWho, decOut, job, chainObj, flight, handler>>

NextService == Start \/ Stop

SpecService == InitPure /\ [][NextService]_vars

\* ------------------------------------------------------------ TRANSFER_ASSETS
\* What the sender holds when the handler runs, in raw units.
NativeBalances == {5, 10, 20}

AssetBalances == {0, 1, 2}

\* Amounts the language model extracts from the user's message.
ContentAmounts == {0, 1, 2}

\* getUserBalance: the free balance, in raw units.
getUserBalance(address, assetId, b) ==
    b[<<DecodeAddress(address).pk, assetId>>]

\* getAssetsDecimals: the chain's native token has one decimal place here,
\* asset 18 has none.
getAssetsDecimals(assetId) == IF assetId = "null" THEN 1 ELSE 0

\* TransferContentSchema: an empty memo is read as null.
PreprocessMemo(memo) == IF memo.some /\ memo.v = <<>> THEN None ELSE memo

\* validateTransferContent: checkAddress(recipient, 0) and amount > 0.
validateTransferContent(recipient, amount) ==
    /\ Decodes(recipient) /\ DecodeAddress(recipient).prefix = 0
    /\ amount > 0

\* The handler of TRANSFER_ASSETS on the service's chain object.
HandleTransfer ==
    /\ Room
    /\ \E recipient \in ToInputs, amount \in ContentAmounts,
          assetId \in AssetIds, rawMemo \in MemoInputs, net \in BOOLEAN :
        LET self == ChainObject("sk_alice", TRUE)
            memo == PreprocessMemo(rawMemo)
            senderAddress == getMyAddress(self)
            balance == getUserBalance(senderAddress, assetId, bal)
            decimals == getAssetsDecimals(assetId)
            requiredAmount == amount * (10 ^ decimals)
            res == IF assetId = "null"
                   THEN transferWithMemo(self, recipient, amount, memo, net)
                   ELSE assetsTransferWithMemo(self, recipient, amount, assetId,
                                               memo, net)
            op == IF assetId = "null" THEN "transferWithMemo"
                  ELSE "assetsTransferWithMemo"
        IN  IF ~validateTransferContent(recipient, amount)
            THEN /\ handler' = [NoHandler EXCEPT !.ran = TRUE, !.success = FALSE,
                                                 !.assetId = assetId,
                                                 !.amount = amount]
                 /\ UNCHANGED <<pending, last, sent>>
            ELSE IF balance < requiredAmount
            THEN /\ handler' = [ran |-> TRUE, success |-> FALSE,
                                assetId |-> assetId, amount |-> amount,
                                balance |-> balance,
                                requiredAmount |-> requiredAmount,
                                passed |-> 0, submitted |-> FALSE]
                 /\ UNCHANGED <<pending, last, sent>>
            ELSE /\ handler' = [ran |-> TRUE, success |-> res.ok,
                                assetId |-> assetId, amount |-> amount,
                                balance |-> balance,
                                requiredAmount |-> requiredAmount,
                                passed |-> amount,
                                submitted |-> Len(res.sub) > 0]
                 /\ last' = [op |-> op, self |-> self, to |-> recipient,
                             amount |-> amount, assetId |-> assetId,
                             memo |-> memo, net |-> net, res |-> res]
                 /\ pending' = pending \o res.sub
                 /\ sent' = IF Len(res.sub) > 0
                            THEN Append(sent, [op |-> op, self |-> self,
                                               to |-> recipient, amount |-> amount,
                                               assetId |-> assetId, memo |-> memo])
                            ELSE sent
    /\ UNCHANGED <<blocks, bal, rows, recIn, recOut, decIn, decWho, decOut, job,
                   chainObj, flight, service>>

\* The sender's holdings are whatever the chain says when the handler runs.
InitHandler ==
    /\ pending = <<>> /\ blocks = <<>> /\ sent = <<>>
    /\ \E n \in NativeBalances, a \in AssetBalances :
          bal = [k \in {acc.pk : acc \in Accounts} \X AssetIds |->
                    IF k[1] # "pk_alice" THEN 0
                    ELSE IF k[2] = "null" THEN n ELSE a]
    /\ last = NoCall /\ rows = NoRead
    /\ recIn = <<>> /\ recOut = NotRun
    /\ decIn = <<>> /\ decWho = NoCrypt /\ decOut = NotDecrypted
    /\ job = NoJob
    /\ chainObj = NoObject /\ flight = NoFlight
    /\ service = NoService /\ handler = NoHandler

NextHandler == HandleTransfer \/ Return \/ ChainExecute

SpecHandler == InitHandler /\ [][NextHandler]_vars

\* ------------------------------------------------------------ properties
Has(trace, step) == \E k \in 1..Len(trace) : trace[k] = step

Submitted == Len(last.res.sub) > 0

ComposeOps == {"transferWithMemo", "assetsTransferWithMemo"}

\* The value-transfer call a compose call asks for.
WantedTransfer(call) ==
    IF call.assetId = "null" THEN TransferCall(call.to, call.amount)
    ELSE AssetTransferCall(call.assetId, call.to, call.amount)

AllExtrinsics ==
    { pending[k] : k \in 1..Len(pending) } \cup { blocks[k].ext : k \in 1..Len(blocks) }

\* C1: a call with a non-null memo that submits, submits a batch whose last
\* call is the remark carrying the envelope and whose preceding calls are the
\* value transfer; no extrinsic has a call after its remark.
C1_BatchPlacement ==
    /\ (last.op \in ComposeOps /\ last.memo.some /\ Submitted) =>
         LET ext == last.res.sub[1]
             n == Len(ext.calls)
         IN  /\ ext.wrap = "batch_all"
             /\ n >= 2
             /\ IsRemark(ext.calls[n])
             /\ convertJsonToEncryptedMemo(Some(ext.calls[n].remark)).ok
             /\ \A j \in 1..(n - 1) : ext.calls[j] = WantedTransfer(last)
    /\ \A ext \in AllExtrinsics : \A j \in 1..Len(ext.calls) :
         IsRemark(ext.calls[j]) => j = Len(ext.calls) /\ j > 1

C1_Witness ==
    /\ last.op = "assetsTransferWithMemo" /\ last.assetId = "18"
    /\ last.memo.some /\ Submitted
    /\ IsRemark(Last(last.res.sub[1].calls))

TransferApplied(blk) ==
    \E j \in 1..Len(blk.ext.calls) : IsTransfer(blk.ext.calls[j]) /\ blk.applied[j]

RemarkApplied(blk) ==
    \E j \in 1..Len(blk.ext.calls) : IsRemark(blk.ext.calls[j]) /\ blk.applied[j]

\* C2: in every chain state the transfer of a memo submission has been
\* applied if and only if its remark has been applied.
C2_AllOrNothing ==
    \A i \in 1..Len(blocks) :
        sent[i].memo.some => (TransferApplied(blocks[i]) <=> RemarkApplied(blocks[i]))

C2_Witness ==
    \E i \in 1..Len(blocks) :
        /\ sent[i].memo.some
        /\ ~blocks[i].success
        /\ ~TransferApplied(blocks[i]) /\ ~RemarkApplied(blocks[i])

\* C3: when A's transfer to B with plaintext P is applied and indexed, B's
\* read of it (history or lookup by hash), decrypted with B's identity, has
\* a row for it whose memo is P.
C3_RoundTrip ==
    (rows.op \in {"history", "getTransferMemo"}) =>
      /\ rows.res.ok =>
           \A k \in 1..Len(rows.res.v) :
              LET i == rows.res.v[k].extrinsic_index IN
              (sent[i].memo.some /\ getAddressPublicKey(sent[i].to).v = PubOf(rows.reader))
                 => rows.res.v[k].memo = Some(sent[i].memo.v)
      /\ (rows.op = "history") =>
           \A i \in 1..rows.seen :
              (/\ blocks[i].success
               /\ sent[i].memo.some
               /\ getAddressPublicKey(sent[i].to).v = PubOf(rows.reader))
                 => /\ rows.res.ok
                    /\ \E k \in 1..Len(rows.res.v) : rows.res.v[k].extrinsic_index = i

C3_Witness ==
    /\ rows.op = "history" /\ rows.reader = "sk_bob" /\ rows.res.ok
    /\ \E k \in 1..Len(rows.res.v) :
          /\ rows.res.v[k].memo = Some(<<"hello bob">>)
          /\ rows.res.v[k].amount = 0
          /\ rows.res.v[k].type = "Receive"

\* The raw memo the indexer holds for extrinsic i.
RawMemo(i) == FindMemo(getMemoByTransferExtrinsics(<<ParamsOfBlock(blocks, i)>>).v, i)

AddressedTo(raw, sk) ==
    /\ convertJsonToEncryptedMemo(raw).ok
    /\ getAddressPublicKey(convertJsonToEncryptedMemo(raw).v.to).ok
    /\ getAddressPublicKey(convertJsonToEncryptedMemo(raw).v.to).v = PubOf(sk)

C8_InvalidRecipientRejected ==
    (last.op \in ComposeOps /\ last.to \notin {<<"1alice">>, <<"1bob">>, <<"1eve">>}) =>
        /\ ~last.res.ok
        /\ ~Submitted
        /\ last.res.trace = <<"validateAddress">>

C8_Witness ==
    /\ last.op = "transferWithMemo" /\ last.to = <<"5bob">> /\ last.memo.some
    /\ ~last.res.ok

\* C9: sendMessage with a null or empty message fails, and nothing is signed
\* or submitted.
C9_EmptyMessageRejected ==
    (last.op = "sendMessage" /\ (~last.memo.some \/ last.memo.v = <<>>)) =>
        /\ ~last.res.ok
        /\ ~Submitted
        /\ ~Has(last.res.trace, "signAndSend")

\* C10: with a null memo a compose call that submits, submits exactly one
\* plain value-transfer call; no batch, no remark, and the encryption
\* service is not invoked.
C10_NullMemoPlainTransfer ==
    (last.op \in ComposeOps /\ ~last.memo.some) =>
        /\ ~Has(last.res.trace, "encryptMessage")
        /\ Submitted =>
             /\ last.res.sub[1].wrap = "none"
             /\ last.res.sub[1].calls = <<WantedTransfer(last)>>

C10_Witness ==
    /\ last.op = "assetsTransferWithMemo" /\ last.assetId = "18"
    /\ ~last.memo.some /\ Submitted

Count(trace, step) == Cardinality({ k \in 1..Len(trace) : trace[k] = step })

\* C19: a compose call signs and submits at most once; when the submission
\* is rejected the call fails, its error names the operation and ends with
\* the underlying cause, and nothing was submitted a second time.
C19_SubmitOnceNoRetry ==
    (last.op # "none") =>
       /\ Count(last.res.trace, "signAndSend") <= 1
       /\ Len(last.res.sub) <= 1
       /\ (Len(last.res.sub) = 1) => Has(last.res.trace, "signAndSend")
       /\ (Has(last.res.trace, "signAndSend") /\ ~last.net) =>
             /\ ~last.res.ok
             /\ last.res.sub = <<>>
             /\ last.res.err[1] = "Failed to " \o last.op
             /\ Last(last.res.err) = "signAndSend rejected"

C19_Witness ==
    /\ last.op = "sendMessage" /\ ~last.net /\ ~last.res.ok
    /\ Count(last.res.trace, "signAndSend") = 1
    /\ last.res.err = <<"Failed to sendMessage", "Failed to transferWithMemo",
                        "signAndSend rejected">>
    /\ pending = <<>>

\* The extrinsics submitted so far, in submission order.
AllSubmitted == [k \in 1..Len(blocks) |-> blocks[k].ext] \o pending

\* C20: the remark of every submission made with a memo has one parameter,
\* the serialized envelope of exactly ciphertext, scheme tag and recipient;
\* the tag is the sender's key-pair type and the recipient is the address
\* the transfer call of the same batch pays to.
C20_EnvelopeFields ==
    \A i \in 1..Len(sent) :
       sent[i].memo.some =>
          LET ext == AllSubmitted[i]
              remark == Last(ext.calls)
              payload == remark.remark
              e == SubSeq(payload, 2, Len(payload) - 5)
          IN  /\ IsRemark(remark)
              /\ Len(CallParams(remark)) = 1
              /\ CallParams(remark)[1].value = payload
              /\ Len(ext.calls) >= 2
              /\ Len(e) > 0
              /\ \A j \in 1..(Len(ext.calls) - 1) :
                    /\ IsTransfer(ext.calls[j])
                    /\ payload = JSONstringify([e |-> e,
                                                t |-> sent[i].self.keyPairType,
                                                to |-> ext.calls[j].dest])

C20_Witness ==
    /\ Len(sent) = 1 /\ Len(pending) = 1
    /\ sent[1].op = "assetsTransferWithMemo" /\ sent[1].assetId = "18"
    /\ sent[1].memo = Some(<<"hello bob">>)
    /\ pending[1].calls[1].dest = <<"1bob">>
    /\ Len(Last(pending[1].calls).remark) > 6

\* Position of the first occurrence of step in trace, 0 when it is missing.
Pos(trace, step) ==
    IF Has(trace, step)
    THEN CHOOSE k \in 1..Len(trace) :
            trace[k] = step /\ \A j \in 1..(k - 1) : trace[j] # step
    ELSE 0

\* C21: in a compose call with a memo the recipient's public key is resolved
\* and the memo encrypted before anything is signed; when the resolution or
\* the encryption fails, nothing is signed or submitted.
C21_EncryptBeforeSign ==
    (last.op \in ComposeOps /\ last.memo.some) =>
       /\ Has(last.res.trace, "signAndSend") =>
             /\ 0 < Pos(last.res.trace, "getAddressPublicKey")
             /\ Pos(last.res.trace, "getAddressPublicKey")
                   < Pos(last.res.trace, "encryptMessage")
             /\ Pos(last.res.trace, "encryptMessage")
                   < Pos(last.res.trace, "getMyKeyPair")
             /\ Pos(last.res.trace, "getMyKeyPair")
                   < Pos(last.res.trace, "signAndSend")
       /\ (~Has(last.res.trace, "getAddressPublicKey")
             \/ ~Has(last.res.trace, "encryptMessage")) =>
             /\ ~last.res.ok
             /\ ~Has(last.res.trace, "getMyKeyPair")
             /\ ~Has(last.res.trace, "signAndSend")
             /\ ~Submitted

C21_Witness ==
    /\ last.op = "assetsTransferWithMemo" /\ last.assetId = "18" /\ last.memo.some
    /\ ~last.self.cryptMessage.present
    /\ last.res.trace = <<"validateAddress", "getAddressPublicKey">>
    /\ ~last.res.ok /\ pending = <<>>

C28_PlaintextNeverOnChain ==
    /\ \A i \in 1..Len(sent) :
          sent[i].memo.some =>
             LET call == sent[i]
                 ext == AllSubmitted[i]
                 payload == Last(ext.calls).remark
             IN  /\ call.self.cryptMessage.present
                 /\ payload = JSONstringify(
                       [e |-> encryptMessage(call.self.cryptMessage, call.memo.v,
                                             getAddressPublicKey(call.to).v),
                        t |-> call.self.keyPairType, to |-> call.to])
                 /\ \A j \in 1..Len(ext.calls) :
                       IsRemark(ext.calls[j]) => ext.calls[j].remark # call.memo.v
                 /\ SubSeq(payload, 2, Len(payload) - 5) # call.memo.v
    /\ (last.op # "none" /\ last.memo.some /\ ~last.self.cryptMessage.present) =>
          /\ ~last.res.ok
          /\ ~Submitted
    /\ \A ext \in AllExtrinsics : \A j \in 1..Len(ext.calls) :
          IsRemark(ext.calls[j]) => ext.calls[j].remark # <<"null">>

C28_Witness ==
    /\ last.op = "transferWithMemo" /\ last.memo = Some(<<"hello bob">>)
    /\ ~last.self.cryptMessage.present
    /\ ~last.res.ok /\ last.res.sub = <<>>
    /\ pending = <<>> /\ blocks = <<>>

\* ------------------------------------------------------------ properties of the pure parts
Without(seq, k) == SubSeq(seq, 1, k - 1) \o SubSeq(seq, k + 1, Len(seq))

\* The row's memo does not open for the service: it is not an envelope, its
\* ciphertext is corrupted, or it is addressed to another key.
Unreadable(memo, crypt) ==
    /\ memo.some
    /\ \/ ~convertJsonToEncryptedMemo(memo).ok
       \/ ~crypt.present
       \/ ~decryptMessage(crypt, convertJsonToEncryptedMemo(memo).v.e).ok

Memos(rs) == [k \in 1..Len(rs) |-> rs[k].memo]

\* C5: with row k unreadable the call completes with as many rows as it was
\* given, row k's memo is its raw value, and the other rows' memos are what
\* they are when row k is not in the input.
C5_PartialFailureIsolation ==
    decOut.run =>
       /\ decOut.ok
       /\ Len(decOut.v) = Len(decIn)
       /\ \A k \in 1..Len(decIn) :
             Unreadable(decIn[k].memo, decWho) =>
                /\ decOut.v[k].memo = decIn[k].memo
                /\ Memos(Without(decOut.v, k))
                     = Memos(decryptTransfersMemo(Without(decIn, k), decWho).v)

C5_Witness ==
    /\ decOut.run /\ decOut.ok /\ Len(decIn) = 2
    /\ Unreadable(decIn[1].memo, decWho)
    /\ convertJsonToEncryptedMemo(decIn[1].memo).ok
    /\ decOut.v[1].memo = decIn[1].memo
    /\ decOut.v[2].memo = Some(<<"hello bob">>)

\* A batch whose last inner call is a System remark with its one parameter.
EndsInRemark(rec) ==
    /\ Len(rec.params) = 1
    /\ rec.params[1].name = "calls"
    /\ Len(rec.params[1].value) > 0
    /\ Last(rec.params[1].value).call_module = "System"
    /\ Last(rec.params[1].value).call_name \in {"remark", "remark_with_event"}
    /\ Len(Last(rec.params[1].value).params) = 1

\* C6: for a record that is one 'calls' parameter whose last inner call is a
\* System remark or remark_with_event, the entry of that locator carries the
\* remark's parameter value as the raw memo.
C6_RemarkBecomesMemo ==
    (recOut.run /\ recOut.ok) =>
       \A k \in 1..Len(recIn) :
          EndsInRemark(recIn[k]) =>
             /\ recOut.v[k].extrinsic_index = recIn[k].extrinsic_index
             /\ recOut.v[k].memo = Some(Last(recIn[k].params[1].value).params[1].value)

C6_Witness ==
    /\ recOut.run /\ recOut.ok /\ Len(recIn) = 2
    /\ EndsInRemark(recIn[1]) /\ Len(recIn[1].params[1].value) = 2
    /\ Last(recIn[1].params[1].value).call_name = "remark_with_event"
    /\ recOut.v[1].memo = Some(Envelope("sk_alice", <<"1bob">>, <<"hello bob">>))
    /\ ~EndsInRemark(recIn[2])

\* C7: the call produces exactly one entry per parameter record, and the
\* entry of every record that is not a batch ending in a remark has no memo.
C7_OtherwiseNoMemo ==
    recOut.run =>
       /\ recOut.ok
       /\ Len(recOut.v) = Len(recIn)
       /\ \A k \in 1..Len(recIn) :
             /\ recOut.v[k].extrinsic_index = recIn[k].extrinsic_index
             /\ ~EndsInRemark(recIn[k]) => recOut.v[k].memo = None

\* C11: a row whose memo is absent or does not parse as an envelope never
\* reaches decryptMessage, and its memo comes back exactly as it was; an
\* absent memo stays absent.
C11_ParseBeforeDecrypt ==
    decOut.run =>
       /\ decOut.ok
       /\ \A k \in 1..Len(decIn) :
             (~decIn[k].memo.some \/ ~convertJsonToEncryptedMemo(decIn[k].memo).ok) =>
                /\ ~decOut.calls[k]
                /\ decOut.v[k].memo = decIn[k].memo

C11_Witness ==
    /\ decOut.run /\ decOut.ok /\ decWho.present /\ Len(decIn) = 2
    /\ decIn[1].memo = None /\ decOut.v[1].memo = None /\ ~decOut.calls[1]
    /\ decIn[2].memo = Some(<<"thanks">>) /\ decOut.v[2].memo = Some(<<"thanks">>)
    /\ ~decOut.calls[2]

\* The envelope's scheme tag differs from the key-pair type of the service.
SchemeMismatch(memo, crypt) ==
    /\ convertJsonToEncryptedMemo(memo).ok
    /\ crypt.present
    /\ convertJsonToEncryptedMemo(memo).v.t # crypt.type

\* C12: for a row whose envelope carries a scheme tag other than the local
\* identity's key-pair type, decryptMessage is not called and the memo stays
\* the raw envelope.
C12_SchemeMismatchFailsClosed ==
    decOut.run =>
       \A k \in 1..Len(decIn) :
          SchemeMismatch(decIn[k].memo, decWho) =>
             /\ ~decOut.calls[k]
             /\ decOut.ok /\ decOut.v[k].memo = decIn[k].memo

\* A record the reconciler cannot interpret: a batch with no inner call, or
\* a batch ending in a remark that has no parameter.
Uninterpretable(rec) ==
    /\ Len(rec.params) = 1
    /\ rec.params[1].name = "calls"
    /\ \/ Len(rec.params[1].value) = 0
       \/ /\ Last(rec.params[1].value).call_module = "System"
          /\ Last(rec.params[1].value).call_name \in {"remark", "remark_with_event"}
          /\ Len(Last(rec.params[1].value).params) = 0

\* C18: with an uninterpretable record in the response the call completes,
\* records memo absent for that locator, and records for every other
\* locator what it records when that locator is asked alone.
C18_BadRecordDoesNotAbort ==
    (recOut.run /\ \E k \in 1..Len(recIn) : Uninterpretable(recIn[k])) =>
       /\ recOut.ok
       /\ Len(recOut.v) = Len(recIn)
       /\ \A k \in 1..Len(recIn) :
             IF Uninterpretable(recIn[k])
             THEN recOut.v[k].memo = None
             ELSE recOut.v[k] = getMemoByTransferExtrinsics(<<recIn[k]>>).v[1]

\* ------------------------------------------------------------ properties of a history read
\* The transfer records the indexer served for the read in rows.
Served == IndexerTransfers(blocks, rows.seen, rows.address, rows.index)

\* C13: with a queried address, a row's direction is 'Send' exactly when the
\* transfer's from field is the queried address, and 'Receive' otherwise.
C13_DirectionByFrom ==
    (rows.op = "addressTransferHistory" /\ rows.address.some) =>
       /\ rows.res.ok
       /\ Len(rows.res.v) = Len(Served)
       /\ \A k \in 1..Len(Served) :
             /\ (Served[k].from = rows.address.v) => rows.res.v[k].type = "Send"
             /\ (Served[k].from # rows.address.v) => rows.res.v[k].type = "Receive"

C13_Witness ==
    /\ rows.op = "addressTransferHistory" /\ rows.address = Some(<<"1alice">>)
    /\ rows.res.ok
    /\ \E k, l \in 1..Len(rows.res.v) :
          /\ rows.res.v[k].type = "Send" /\ rows.res.v[k].sender = <<"1alice">>
          /\ rows.res.v[l].type = "Receive" /\ rows.res.v[l].sender = <<"1bob">>

\* The payload of the remark that closes a batch, as the chain holds it.
TrailingRemark(ext) ==
    IF ext.wrap # "none" /\ IsRemark(Last(ext.calls))
    THEN Some(Last(ext.calls).remark) ELSE None

\* The memo map built for the served records.
MemoMap == getMemoByTransferExtrinsics(IndexerParams(blocks, Served)).v

\* C16: a history read yields one row per served transfer record, in order;
\* each row's memo is the memo the map records for the row's locator (absent
\* when it records none), which is the raw remark payload, not a plaintext;
\* rows of one locator carry the same memo.
C16_JoinByLocator ==
    (rows.op = "addressTransferHistory") =>
       /\ rows.res.ok
       /\ Len(rows.res.v) = Len(Served)
       /\ \A k \in 1..Len(Served) :
             LET row == rows.res.v[k] IN
             /\ row.extrinsic_index = Served[k].extrinsic_index
             /\ row.sender = Served[k].from /\ row.recipient = Served[k].to
             /\ \E j \in 1..Len(MemoMap) :
                   /\ MemoMap[j].extrinsic_index = row.extrinsic_index
                   /\ MemoMap[j].memo = row.memo
             /\ row.memo = TrailingRemark(blocks[row.extrinsic_index].ext)
       /\ \A k, l \in 1..Len(rows.res.v) :
             rows.res.v[k].extrinsic_index = rows.res.v[l].extrinsic_index
                => rows.res.v[k].memo = rows.res.v[l].memo

C16_Witness ==
    /\ rows.op = "addressTransferHistory" /\ rows.res.ok
    /\ \E k, l, n \in 1..Len(rows.res.v) :
          /\ k # l
          /\ rows.res.v[k].extrinsic_index = rows.res.v[l].extrinsic_index
          /\ rows.res.v[k].recipient # rows.res.v[l].recipient
          /\ convertJsonToEncryptedMemo(rows.res.v[k].memo).ok
          /\ rows.res.v[l].memo = rows.res.v[k].memo
          /\ rows.res.v[n].memo = None

\* ------------------------------------------------------------ properties of a lookup by hash
LookupOps == {"getTransferByHash", "getTransferMemo"}

\* C14: a row returned by a lookup by hash, made with no queried address,
\* carries no direction: its type is neither 'Send' nor 'Receive'.
C14_NoDirectionByHash ==
    (rows.op \in LookupOps /\ rows.res.ok) =>
       \A k \in 1..Len(rows.res.v) : rows.res.v[k].type \notin {"Send", "Receive"}

\* C15: a lookup by hash either fails or returns the one row of the hash's
\* locator; it never completes with no row.
C15_RowOrNotFound ==
    (rows.op \in LookupOps /\ rows.res.ok) =>
       /\ Len(rows.res.v) = 1
       /\ rows.res.v[1].extrinsic_index = rows.index.v
       /\ rows.res.v[1].txId = TxHash(rows.index.v)

\* ------------------------------------------------------------ properties of concurrent decryption
\* C17: whatever the order in which the rows' decryptions settle, the call
\* returns as many rows as it was given, position i holds input row i, and
\* its memo is the one a sequential run produces.
C17_OrderIndependent ==
    (decOut.run /\ Len(job.cbs) > 0) =>
       /\ decOut.ok
       /\ Len(decOut.v) = Len(decIn)
       /\ \A k \in 1..Len(decIn) :
             /\ decOut.v[k].extrinsic_index = decIn[k].extrinsic_index
             /\ decOut.v[k].txId = decIn[k].txId
             /\ decOut.v[k].memo = decryptTransfersMemo(decIn, decWho).v[k].memo
             /\ decOut.calls[k] = DecryptCalls(decIn, decWho)[k]

C17_Witness ==
    /\ decOut.run /\ decOut.ok /\ Len(decIn) = 2
    /\ job.order = <<2, 1>>
    /\ decOut.v[1].memo = Some(<<"hello bob">>) /\ decOut.v[1].extrinsic_index = 1
    /\ decOut.v[2].memo = Some(<<"hello eve">>) /\ decOut.v[2].extrinsic_index = 2

\* ------------------------------------------------------------ frame of decryption
\* C30: every output row of decryptTransfersMemo equals its input row in
\* every field but memo, whether or not the memo was decrypted.
C30_OnlyMemoChanges ==
    decOut.run =>
       /\ decOut.ok
       /\ Len(decOut.v) = Len(decIn)
       /\ \A k \in 1..Len(decIn) :
             [decOut.v[k] EXCEPT !.memo = decIn[k].memo] = decIn[k]

C30_Witness ==
    /\ decOut.run /\ decOut.ok /\ Len(decIn) = 2
    /\ decOut.calls = <<TRUE, TRUE>>
    /\ decOut.v[1].memo # decIn[1].memo
    /\ decOut.v[2].memo = decIn[2].memo
    /\ decOut.v[1].txId = TxHash(1) /\ decOut.v[2].txId = TxHash(2)

\* ------------------------------------------------------------ properties of a SubstrateChain object
\* C25: on a chain object whose encryption service was built from its
\* private key when the compose call began, whatever updatePrivateKey does
\* between the steps of the call, the key whose service encrypted the memo
\* is the key that signs the batch.
C25_EncryptKeyIsSignKey ==
    (flight.pc = "done" /\ flight.ok /\ flight.encryptedBy = flight.startKey) =>
        flight.encryptedBy = flight.signedBy

\* C27: a failed updateRpcUrl leaves the URL and the connected api as they
\* were; a successful one installs the new URL and keeps chainName,
\* ss58Format and keyPairType.
C27_UpdateRpcUrlAllOrNothing ==
    (chainObj.res.op = "updateRpcUrl") =>
       /\ ~chainObj.res.ok =>
             /\ chainObj.rpcUrl = chainObj.res.rpcUrl
             /\ chainObj.api = chainObj.res.api
       /\ chainObj.res.ok =>
             /\ chainObj.api = [url |-> chainObj.rpcUrl, connected |-> TRUE]
             /\ chainObj.chainName = chainObj.res.chainName
             /\ chainObj.ss58Format = chainObj.res.ss58Format
             /\ chainObj.keyPairType = chainObj.res.keyPairType

\* C29: the encryption service of a chain object is null or of the object's
\* key-pair type, and create fails when it is handed a service of another
\* type.
C29_CryptMatchesKeyPairType ==
    /\ chainObj.made =>
          (chainObj.cryptMessage.present =>
              chainObj.cryptMessage.type = chainObj.keyPairType)
    /\ (chainObj.res.op = "create" /\ chainObj.cryptMessage.present
           /\ chainObj.cryptMessage.type # chainObj.keyPairType) => ~chainObj.res.ok

\* ------------------------------------------------------------ properties of the service
\* C23: a start that finds ASSET_HUB_PRIVATE_KEY unset, or whose chain
\* initialization fails, throws to its caller.
C23_StartThrowsOnFailure ==
    (service.res.op = "start" /\ service.res.failed) => service.res.threw

\* C24: a chain object installed in the service is always one of the
\* Polkadot Asset Hub, whatever starts and stops came before.
C24_ChainIsAssetHub ==
    service.chain.made => service.chain.chainName = serviceType

\* ------------------------------------------------------------ properties of the handler
\* C26: the amount the handler passes to the transfer call is the raw amount
\* it compared with the balance, and that amount is within the balance read.
C26_SubmittedAmountIsCheckedAmount ==
    handler.submitted =>
        /\ handler.passed = handler.requiredAmount
        /\ handler.requiredAmount <= handler.balance

====
